---------------------------- MODULE Spec2Model ----------------------------
(* A model of streamlit_bgg.py: the data preparation                        *)
(* (load_and_prepare_data) and the two sections the script runs on every    *)
(* rerun (graph_section, hotness_table_section).                            *)
(*                                                                          *)
(* A table (pandas DataFrame) is a sequence of records, in frame order.     *)
(* A date is a day number; pd.Timedelta(days=1) is +1.                      *)
EXTENDS Integers, Sequences, FiniteSets, TLC

VARIABLES
    csv,        \* the rows of bgg_hotness_history.csv, in file order
    cache,      \* st.cache_data's entry for load_and_prepare_data(csv_file)
    session,    \* st.session_state: selected_games and selected_ranks
    widgets,    \* the values the front end holds for the script's widgets
    out         \* what the last run of the script issued

vars == <<csv, cache, session, widgets, out>>

-----------------------------------------------------------------------------
(* Bounds of the model.                                                     *)

\* game ids 1..NumPrepGames in the tables the data preparation is tried on
NumPrepGames == 2
\* dates 1..NumPrepDates in those tables
NumPrepDates == 3
\* at most MaxRows rows in those tables
MaxRows == 3
\* views 0..MaxViews in those tables
MaxViews == 1
\* game ids 1..NumUiGames in the dense table the sections are tried on
NumUiGames == 17
\* the user edits a multiselect to any selection among its first MaxPick options
MaxPick == 1

-----------------------------------------------------------------------------
(* Sequences and frames.                                                    *)

Range(s) == {s[i] : i \in 1..Len(s)}

\* F(v), with v evaluated once: the local variable of the code that holds v
Let(v, F(_)) == CHOOSE result \in {F(x) : x \in {v}} : TRUE

\* df[mask]: the rows that satisfy Keep, in frame order
Filter(df, Keep(_)) == SelectSeq(df, Keep)

\* the smallest / largest element of a non-empty set of integers
SetMin(values) == Let(values, LAMBDA S : CHOOSE x \in S : \A y \in S : x <= y)
SetMax(values) == Let(values, LAMBDA S : CHOOSE x \in S : \A y \in S : x >= y)

-----------------------------------------------------------------------------
(* load_and_prepare_data                                                    *)

\* df["name"].str.replace("'", "", regex=False), on the names of the model
str_replace_apostrophe(name) ==
    CASE name = "King's Hall" -> "Kings Hall"
      [] name = "Agent' Avenue" -> "Agent Avenue"
      [] OTHER -> name

sanitize_names(frame) ==
    Let(frame, LAMBDA df :
        [i \in 1..Len(df) |-> [df[i] EXCEPT !.name = str_replace_apostrophe(@)]])

\* the order of sort_values(by=["game_id", "date"])
game_date_before(a, b) ==
    \/ a.game_id < b.game_id
    \/ a.game_id = b.game_id /\ a.date < b.date

\* df.sort_values(by=["game_id", "date"], inplace=True): row i goes to the
\* place after the rows before it in the order and, of the rows equal to it in
\* the order, those before it in the frame (a stable sort)
sort_values_game_date(frame) ==
    Let(frame, LAMBDA df :
    Let([i \in 1..Len(df) |->
            1 + Cardinality({j \in 1..Len(df) :
                    \/ game_date_before(df[j], df[i])
                    \/ /\ ~game_date_before(df[i], df[j])
                       /\ j < i})], LAMBDA place :
        [k \in 1..Len(df) |-> df[CHOOSE i \in 1..Len(df) : place[i] = k]]))

\* the position of the row before row i in i's game_id group, 0 when i is the
\* group's first row (groupby keeps the frame order inside a group)
prev_in_group(df, i) ==
    Let({j \in 1..(i - 1) : df[j].game_id = df[i].game_id}, LAMBDA before :
        IF before = {} THEN 0 ELSE SetMax(before))

\* a variant of groupby_views_diff: the difference is taken down the column,
\* over the group boundaries
plain_views_diff(frame) ==
    Let(frame, LAMBDA df :
        [i \in 1..Len(df) |->
            IF i = 1 THEN <<>> ELSE <<df[i].views - df[i - 1].views>>])

\* df.groupby("game_id")["views"].diff(): per row <<>> (NaN) or <<difference>>
groupby_views_diff(frame) ==
    Let(frame, LAMBDA df :
        [i \in 1..Len(df) |->
            Let(prev_in_group(df, i), LAMBDA p :
                IF p = 0 THEN <<>> ELSE <<df[i].views - df[p].views>>)])

\* .fillna(0)
fillna0(x) == IF x = <<>> THEN 0 ELSE x[1]

\* df["views_diff"] = df.groupby("game_id")["views"].diff().fillna(0)
with_views_diff(frame) ==
    Let(frame, LAMBDA df :
    Let(groupby_views_diff(df), LAMBDA d :
        [i \in 1..Len(df) |->
            [game_id |-> df[i].game_id, date |-> df[i].date, name |-> df[i].name,
             year |-> df[i].year, rank |-> df[i].rank, views |-> df[i].views,
             views_diff |-> fillna0(d[i])]]))

\* a variant of cutoff_date: the day is not added
cutoff_date_min(df) == SetMin({df[i].date : i \in 1..Len(df)})

\* cutoff_date = df["date"].min() + pd.Timedelta(days=1)
cutoff_date(df) == SetMin({df[i].date : i \in 1..Len(df)}) + 1

load_and_prepare_data(rows) ==
    Let(with_views_diff(sort_values_game_date(sanitize_names(rows))), LAMBDA df :
        IF df = <<>> THEN df   \* min() of no dates is NaT: no row passes the mask
        ELSE Let(cutoff_date(df), LAMBDA cutoff :
                 Filter(df, LAMBDA r : r.date >= cutoff)))

-----------------------------------------------------------------------------
(* The input tables.                                                        *)

\* two games (2 and 3) bear the same name once the apostrophe is removed
GameName(g) ==
    CASE g = 1 -> "Final Titan"
      [] g = 2 -> "King's Hall"
      [] g = 3 -> "Kings Hall"
      [] g = 4 -> "Mindbug"
      [] OTHER -> "Game " \o ToString(g)

CsvRow(g, d, r, v) ==
    [game_id |-> g, date |-> d, name |-> GameName(g), year |-> 2020,
     rank |-> r, views |-> v]

InputRow(g, d, v) == CsvRow(g, d, g, v)

PrepKeys == (1..NumPrepGames) \X (1..NumPrepDates)

\* a table of n rows with keys k[1..n] and views v[1..n], in that order
PrepTable(n, k, v) == [i \in 1..n |-> InputRow(k[i][1], k[i][2], v[i])]

\* two games over three days, views [100,120,135] and [50,80,95]
ScenarioCsv ==
    <<InputRow(2, 3, 95), InputRow(1, 1, 100), InputRow(2, 1, 50),
      InputRow(1, 3, 135), InputRow(1, 2, 120), InputRow(2, 2, 80)>>

NotLoaded == [loaded |-> FALSE, df |-> <<>>]

\* "selected_games" not in st.session_state, "selected_ranks" not in it
NoSession ==
    [has_games |-> FALSE, selected_games |-> <<>>,
     has_ranks |-> FALSE, selected_ranks |-> <<>>]

\* before the first run no widget exists; the values are those the script's
\* first run gives them (the dates come from the table, in FirstRun)
NoWidgets ==
    [mode |-> "By Game", highlight_final_titan |-> TRUE,
     highlight_mindbug |-> FALSE, highlight_agent_avenue |-> FALSE,
     start_date |-> 0, end_date |-> 0, single_day |-> 0,
     multiselect |-> [edited |-> FALSE, value |-> <<>>]]

NoOutput ==
    [ran |-> FALSE, button |-> "", date_error |-> FALSE, graph |-> "none",
     selected_games |-> <<>>, selected_ranks |-> <<>>, pivoted |-> <<>>,
     chart |-> <<>>, highlight_chart |-> <<>>,
     table |-> "not_run", table_rows |-> <<>>]

-----------------------------------------------------------------------------
(* Frame operations of the two sections.                                    *)

Min(a, b) == IF a < b THEN a ELSE b

\* s[:n]
Take(s, n) == SubSeq(s, 1, Min(n, Len(s)))

\* the rows of df at the positions I, in frame order
rows_at(df, positions) ==
    Let(positions, LAMBDA I :
    Let([i \in I |-> Cardinality({j \in I : j <= i})], LAMBDA place :
        [k \in 1..Cardinality(I) |-> df[CHOOSE i \in I : place[i] = k]]))

\* a variant that keeps the last row of each name (keep="last")
drop_duplicates_name_last(frame) ==
    Let(frame, LAMBDA df :
        rows_at(df, {i \in 1..Len(df) :
                        \A j \in (i + 1)..Len(df) : df[j].name # df[i].name}))

\* df.drop_duplicates(subset="name"): the first row of each name is kept
drop_duplicates_name(frame) ==
    Let(frame, LAMBDA df :
        rows_at(df, {i \in 1..Len(df) :
                        \A j \in 1..(i - 1) : df[j].name # df[i].name}))

\* df.drop_duplicates(): the first of the rows equal in every column is kept
drop_duplicates(frame) ==
    Let(frame, LAMBDA df :
        rows_at(df, {i \in 1..Len(df) : \A j \in 1..(i - 1) : df[j] # df[i]}))

\* df.sort_values("rank"): row i goes to the place after the rows of smaller
\* rank and, of the rows of its rank, those before it in the frame
sort_values_rank(frame) ==
    Let(frame, LAMBDA df :
    Let([i \in 1..Len(df) |->
            1 + Cardinality({j \in 1..Len(df) :
                    \/ df[j].rank < df[i].rank
                    \/ df[j].rank = df[i].rank /\ j < i})], LAMBDA place :
        [k \in 1..Len(df) |-> df[CHOOSE i \in 1..Len(df) : place[i] = k]]))

\* df["name"].tolist()
names_of(frame) == Let(frame, LAMBDA df : [i \in 1..Len(df) |-> df[i].name])

\* sorted(S) of a set of integers
sorted(values) ==
    Let(values, LAMBDA S :
    Let([x \in S |-> Cardinality({y \in S : y <= x})], LAMBDA place :
        [k \in 1..Cardinality(S) |-> CHOOSE x \in S : place[x] = k]))

\* the sum of views_diff over the rows of df at the positions I
RECURSIVE sum_views_diff(_, _)
sum_views_diff(df, I) ==
    IF I = {} THEN 0
    ELSE LET i == CHOOSE x \in I : TRUE
         IN  df[i].views_diff + sum_views_diff(df, I \ {i})

-----------------------------------------------------------------------------
(* safe_get_user_data and the sidebar of graph_section                      *)

min_date(df) == SetMin({df[i].date : i \in 1..Len(df)})
max_date(df) == SetMax({df[i].date : i \in 1..Len(df)})

\* the sidebar error of safe_get_user_data; the dates are returned either way
safe_get_user_data(w) ==
    [start_date |-> w.start_date, end_date |-> w.end_date,
     error |-> w.start_date > w.end_date]

highlighted_games(w) ==
    (IF w.highlight_final_titan THEN <<"Final Titan">> ELSE <<>>)
    \o (IF w.highlight_mindbug THEN <<"Mindbug">> ELSE <<>>)
    \o (IF w.highlight_agent_avenue THEN <<"Agent Avenue">> ELSE <<>>)

\* mask = (df["date"] >= start_date) & (df["date"] <= end_date)
df_filtered(df, start_date, end_date) ==
    Let(<<start_date, end_date>>, LAMBDA range :
        Filter(df, LAMBDA r : r.date >= range[1] /\ r.date <= range[2]))

\* st.sidebar.multiselect(options=, default=): the framework raises when a
\* default value is not among the options; otherwise the value is the user's
\* edit of this widget, or the default while the user has not edited it
multiselect(options, default, widget) ==
    [raised |-> ~(Range(default) \subseteq Range(options)),
     value |-> IF widget.edited THEN widget.value ELSE default]

\* a widget whose default has changed is a new widget: the edit is gone
widget_for(widget, old_default, new_default) ==
    IF old_default = new_default THEN widget
    ELSE [edited |-> FALSE, value |-> <<>>]

-----------------------------------------------------------------------------
(* graph_section, By Game                                                   *)

all_games_list(df) == names_of(sort_values_rank(drop_duplicates_name(df)))

most_recent_games(df, end_date) ==
    Let(end_date, LAMBDA day :
        names_of(sort_values_rank(drop_duplicates_name(
            Filter(df, LAMBDA r : r.date = day)))))

\* a variant that sets selected_games in every run
init_selected_games_always(ss, most_recent) ==
    [ss EXCEPT !.has_games = TRUE, !.selected_games = Take(most_recent, 7)]

\* if "selected_games" not in st.session_state: ... = most_recent_games[:7]
init_selected_games(ss, most_recent) ==
    IF ~ss.has_games
    THEN [ss EXCEPT !.has_games = TRUE, !.selected_games = Take(most_recent, 7)]
    ELSE ss

\* the four buttons, in the order the script asks them
game_buttons(ss, pressed, all_games, most_recent) ==
    LET s1 == IF pressed = "Select All"
              THEN [ss EXCEPT !.selected_games = all_games] ELSE ss
        s2 == IF pressed = "None"
              THEN [s1 EXCEPT !.selected_games = <<>>] ELSE s1
        s3 == IF pressed = "TOP 7 (at end date)"
              THEN [s2 EXCEPT !.selected_games = Take(most_recent, 7)] ELSE s2
    IN  IF pressed = "TOP 15 (at end date)"
        THEN [s3 EXCEPT !.selected_games = Take(most_recent, 15)] ELSE s3

\* a variant with aggfunc="first": of the rows of a date and a name the first
\* gives the value
pivot_table_first(frame) ==
    Let(frame, LAMBDA df_selected :
    Let({df_selected[i].name : i \in 1..Len(df_selected)}, LAMBDA names :
        [d \in {df_selected[i].date : i \in 1..Len(df_selected)} |->
            [n \in names |->
                Let({i \in 1..Len(df_selected) :
                        df_selected[i].date = d /\ df_selected[i].name = n},
                    LAMBDA I :
                        IF I = {} THEN 0
                        ELSE df_selected[SetMin(I)].views_diff)]]))

\* df_selected.pivot_table(index="date", columns="name", values="views_diff",
\*                         aggfunc="sum").fillna(0)
pivot_table(frame) ==
    Let(frame, LAMBDA df_selected :
    Let({df_selected[i].name : i \in 1..Len(df_selected)}, LAMBDA names :
        [d \in {df_selected[i].date : i \in 1..Len(df_selected)} |->
            [n \in names |->
                Let({i \in 1..Len(df_selected) :
                        df_selected[i].date = d /\ df_selected[i].name = n},
                    LAMBDA I :
                        fillna0(IF I = {} THEN <<>>
                                ELSE <<sum_views_diff(df_selected, I)>>))]]))

\* selected_games.extend(highlighted_games)
extend(selected, highlighted) == selected \o highlighted

\* if selected_games: pivot and chart; else: the warning
isin_name(frame, names) ==
    Let(Range(names), LAMBDA S : Filter(frame, LAMBDA r : r.name \in S))

isin_rank(frame, ranks) ==
    Let(Range(ranks), LAMBDA S : Filter(frame, LAMBDA r : r.rank \in S))

\* a variant that gives the warning when no row is selected
render_games_guarding_rows(filtered, selected_games) ==
    IF isin_name(filtered, selected_games) # <<>>
    THEN [graph |-> "line_chart",
          pivoted |-> pivot_table(isin_name(filtered, selected_games))]
    ELSE [graph |-> "warning", pivoted |-> <<>>]

render_games(filtered, selected_games) ==
    IF selected_games # <<>>
    THEN [graph |-> "line_chart",
          pivoted |-> pivot_table(isin_name(filtered, selected_games))]
    ELSE [graph |-> "warning", pivoted |-> <<>>]

\* what a run shows when the multiselect raises: nothing after it
Raised(ss, widget) ==
    [session |-> ss, raised |-> TRUE, multiselect |-> widget,
     graph |-> "exception", selected_games |-> <<>>, selected_ranks |-> <<>>,
     pivoted |-> <<>>, chart |-> <<>>, highlight_chart |-> <<>>]

by_game(df, ss, w, pressed, filtered) ==
    Let(all_games_list(df), LAMBDA all_games :
    Let(most_recent_games(df, w.end_date), LAMBDA most_recent :
    Let(init_selected_games(ss, most_recent), LAMBDA ss1 :
    Let(game_buttons(ss1, pressed, all_games, most_recent), LAMBDA ss2 :
    Let(widget_for(w.multiselect, ss.selected_games, ss2.selected_games),
        LAMBDA widget :
    Let(multiselect(all_games, ss2.selected_games, widget), LAMBDA ms :
        IF ms.raised THEN Raised(ss2, widget)
        ELSE Let(extend(ms.value, highlighted_games(w)), LAMBDA selected_games :
             Let(render_games(filtered, selected_games), LAMBDA shown :
                 [session |-> ss2, raised |-> FALSE, multiselect |-> widget,
                  graph |-> shown.graph, selected_games |-> selected_games,
                  selected_ranks |-> <<>>, pivoted |-> shown.pivoted,
                  chart |-> <<>>, highlight_chart |-> <<>>]))))))))

-----------------------------------------------------------------------------
(* graph_section, By Rank                                                   *)

all_ranks(df) == sorted({df[i].rank : i \in 1..Len(df)})

\* if "selected_ranks" not in st.session_state: ... = [1, ..., 10]
init_selected_ranks(ss) ==
    IF ~ss.has_ranks
    THEN [ss EXCEPT !.has_ranks = TRUE,
                    !.selected_ranks = <<1, 2, 3, 4, 5, 6, 7, 8, 9, 10>>]
    ELSE ss

\* the three buttons, in the order the script asks them
rank_buttons(ss, pressed, ranks) ==
    LET s1 == IF pressed = "Select All"
              THEN [ss EXCEPT !.selected_ranks = ranks] ELSE ss
        s2 == IF pressed = "Select None"
              THEN [s1 EXCEPT !.selected_ranks = <<>>] ELSE s1
    IN  IF pressed = "Select Default"
        THEN [s2 EXCEPT !.selected_ranks = <<1, 2, 3, 4, 5, 6, 7, 8, 9, 10>>]
        ELSE s2

\* df_selected["highlight"] = ...
with_highlight(frame, highlighted) ==
    Let(frame, LAMBDA df_selected :
    Let(Range(highlighted), LAMBDA H :
        [i \in 1..Len(df_selected) |->
            Let(df_selected[i], LAMBDA r :
                [game_id |-> r.game_id, date |-> r.date, name |-> r.name,
                 year |-> r.year, rank |-> r.rank, views |-> r.views,
                 views_diff |-> r.views_diff,
                 highlight |->
                     IF H # {}
                     THEN (IF r.name \in H THEN "Highlighted" ELSE "Normal")
                     ELSE ToString(r.rank)])]))

\* a variant without the rows of the highlighted games
rank_selection_only_ranks(filtered, selected_ranks, highlighted) ==
    isin_rank(filtered, selected_ranks)

\* df_selected: the rows of the selected ranks, then those of the highlighted
\* games, without the rows that are there twice
rank_selection(filtered, selected_ranks, highlighted) ==
    drop_duplicates(isin_rank(filtered, selected_ranks)
                    \o isin_name(filtered, highlighted))

\* if selected_ranks: the chart and its overlay; else: the warning
render_ranks(filtered, selected_ranks, highlighted) ==
    IF selected_ranks # <<>>
    THEN Let(with_highlight(
                 rank_selection(filtered, selected_ranks, highlighted),
                 highlighted), LAMBDA df_selected :
             [graph |-> "altair_chart",
              chart |-> isin_rank(df_selected, selected_ranks),
              highlight_chart |-> isin_name(df_selected, highlighted)])
    ELSE [graph |-> "warning", chart |-> <<>>, highlight_chart |-> <<>>]

by_rank(df, ss, w, pressed, filtered) ==
    Let(all_ranks(df), LAMBDA ranks :
    Let(init_selected_ranks(ss), LAMBDA ss1 :
    Let(rank_buttons(ss1, pressed, ranks), LAMBDA ss2 :
    Let(widget_for(w.multiselect, ss.selected_ranks, ss2.selected_ranks),
        LAMBDA widget :
    Let(multiselect(ranks, ss2.selected_ranks, widget), LAMBDA ms :
        IF ms.raised THEN Raised(ss2, widget)
        ELSE Let(highlighted_games(w), LAMBDA highlighted :
             Let(render_ranks(filtered, ms.value, highlighted), LAMBDA shown :
                 [session |-> ss2, raised |-> FALSE, multiselect |-> widget,
                  graph |-> shown.graph, selected_games |-> <<>>,
                  selected_ranks |-> ms.value, pivoted |-> <<>>,
                  chart |-> shown.chart,
                  highlight_chart |-> shown.highlight_chart])))))))

graph_section(df, ss, widget_values, pressed) ==
    Let(widget_values, LAMBDA w :
    Let(safe_get_user_data(w), LAMBDA dates :
    Let(df_filtered(df, dates.start_date, dates.end_date), LAMBDA filtered :
        IF w.mode = "By Game"
        THEN by_game(df, ss, w, pressed, filtered)
        ELSE by_rank(df, ss, w, pressed, filtered))))

-----------------------------------------------------------------------------
(* hotness_table_section                                                    *)

\* df_single_day[["rank", "game_id", "name", "year", "views", "views_diff"]]
table_columns(frame) ==
    Let(frame, LAMBDA df :
        [i \in 1..Len(df) |->
            [rank |-> df[i].rank, game_id |-> df[i].game_id, name |-> df[i].name,
             year |-> df[i].year, views |-> df[i].views,
             views_diff |-> df[i].views_diff]])

\* the value the single-day picker starts with
single_day_default(df) == max_date(df)

\* a variant that leaves the rows of the day in the order of the table
hotness_table_section_unsorted(df, single_day) ==
    Let(single_day, LAMBDA day :
    Let(Filter(df, LAMBDA r : r.date = day), LAMBDA df_single_day :
            IF df_single_day = <<>>
            THEN [table |-> "warning", table_rows |-> <<>>]
            ELSE [table |-> "dataframe",
                  table_rows |-> table_columns(df_single_day)]))

hotness_table_section(df, single_day) ==
    Let(single_day, LAMBDA day :
    Let(sort_values_rank(Filter(df, LAMBDA r : r.date = day)),
        LAMBDA df_single_day :
            IF df_single_day = <<>>
            THEN [table |-> "warning", table_rows |-> <<>>]
            ELSE [table |-> "dataframe",
                  table_rows |-> table_columns(df_single_day)]))

-----------------------------------------------------------------------------
(* The script: graph_section(), then hotness_table_section(), run once at   *)
(* the start of the session and once after every interaction.               *)

\* five games over the days 1, 2 and 3, in no order: games 1 and 4 change
\* places between day 2 and day 3, game 2 joins on day 2 and game 5 on day 3,
\* games 2 and 3 share a name and no rank is above 5
SmallCsv ==
    <<CsvRow(3, 1, 1, 20), CsvRow(1, 1, 3, 10), CsvRow(4, 2, 4, 3),
      CsvRow(1, 2, 1, 15), CsvRow(2, 2, 2, 7), CsvRow(3, 2, 3, 26),
      CsvRow(5, 3, 5, 1), CsvRow(4, 1, 4, 2), CsvRow(1, 3, 3, 30),
      CsvRow(2, 3, 1, 9), CsvRow(4, 3, 2, 8), CsvRow(3, 3, 4, 25)>>

\* three games over the days 1, 2 and 4, in no order: no row is dated day 3,
\* and on no day are the games in the order of their ranks
GapCsv ==
    <<CsvRow(2, 1, 1, 5), CsvRow(1, 1, 2, 10), CsvRow(1, 4, 3, 30),
      CsvRow(1, 2, 2, 15), CsvRow(2, 2, 1, 7), CsvRow(3, 4, 2, 4),
      CsvRow(2, 4, 1, 9)>>

\* NumUiGames games on each of the days 1 and 2: every rank from 1 to
\* NumUiGames is taken on both days, and every game moves one rank a day
DenseCsv ==
    [i \in 1..(2 * NumUiGames) |->
        LET g == ((i - 1) % NumUiGames) + 1
            d == ((i - 1) \div NumUiGames) + 1
        IN  CsvRow(g, d, ((g + d - 2) % NumUiGames) + 1, 3 * g * d + d * d)]

UiTables == {SmallCsv, DenseCsv}

Fresh == [edited |-> FALSE, value |-> <<>>]

Script(w, pressed) ==
    \E df \in {IF cache.loaded THEN cache.df ELSE load_and_prepare_data(csv)} :
    \E G \in {graph_section(df, session, w, pressed)} :
    \* an exception in graph_section ends the run
    \E T \in {IF G.raised
              THEN [table |-> "not_run", table_rows |-> <<>>]
              ELSE hotness_table_section(df, w.single_day)} :
        /\ cache' = [loaded |-> TRUE, df |-> df]
        /\ session' = G.session
        \* a widget the run did not reach is forgotten by the front end
        /\ widgets' =
               [w EXCEPT !.multiselect = IF G.raised THEN Fresh ELSE G.multiselect,
                         !.single_day =
                             IF G.raised THEN single_day_default(df) ELSE @]
        /\ out' = [ran |-> TRUE, button |-> pressed,
                   date_error |-> safe_get_user_data(w).error,
                   graph |-> G.graph, selected_games |-> G.selected_games,
                   selected_ranks |-> G.selected_ranks, pivoted |-> G.pivoted,
                   chart |-> G.chart, highlight_chart |-> G.highlight_chart,
                   table |-> T.table, table_rows |-> T.table_rows]
        /\ UNCHANGED csv

Init ==
    /\ csv \in UiTables
    /\ cache = NotLoaded
    /\ session = NoSession
    /\ widgets = NoWidgets
    /\ out = NoOutput

\* the first run: every widget has the value the script gives it
FirstRun ==
    /\ ~out.ran
    /\ LET df == load_and_prepare_data(csv)
       IN  Script([widgets EXCEPT !.start_date = min_date(df),
                                  !.end_date = max_date(df),
                                  !.single_day = single_day_default(df)], "")

\* the radio; the other mode's multiselect is a widget of its own
SetMode ==
    /\ out.ran
    /\ \E m \in {"By Game", "By Rank"} :
        /\ m # widgets.mode
        /\ Script([widgets EXCEPT !.mode = m, !.multiselect = Fresh], "")

ToggleFinalTitan ==
    /\ out.ran
    /\ Script([widgets EXCEPT !.highlight_final_titan = ~@], "")

ToggleMindbug ==
    /\ out.ran
    /\ Script([widgets EXCEPT !.highlight_mindbug = ~@], "")

ToggleAgentAvenue ==
    /\ out.ran
    /\ Script([widgets EXCEPT !.highlight_agent_avenue = ~@], "")

\* the pickers offer the days from the first to the last of the prepared table
SetStartDate ==
    /\ out.ran
    /\ \E d \in min_date(cache.df)..max_date(cache.df) :
        /\ d # widgets.start_date
        /\ Script([widgets EXCEPT !.start_date = d], "")

SetEndDate ==
    /\ out.ran
    /\ \E d \in min_date(cache.df)..max_date(cache.df) :
        /\ d # widgets.end_date
        /\ Script([widgets EXCEPT !.end_date = d], "")

\* the selections the user edits a multiselect to: any of its first MaxPick
\* options
UserPicks(options) ==
    LET first == Take(options, MaxPick)
    IN  {rows_at(first, I) : I \in SUBSET (1..Len(first))}

MultiselectOptions ==
    IF widgets.mode = "By Game" THEN all_games_list(cache.df)
    ELSE all_ranks(cache.df)

\* the value the multiselect of the last run shows
MultiselectValue ==
    IF widgets.multiselect.edited THEN widgets.multiselect.value
    ELSE IF widgets.mode = "By Game" THEN session.selected_games
    ELSE session.selected_ranks

\* the user edits the multiselect the last run has shown
EditMultiselect ==
    /\ out.ran
    /\ out.graph # "exception"
    /\ \E sel \in UserPicks(MultiselectOptions) :
        /\ sel # MultiselectValue
        /\ Script([widgets EXCEPT !.multiselect = [edited |-> TRUE, value |-> sel]],
                  "")

Buttons(mode) ==
    IF mode = "By Game"
    THEN {"Select All", "None", "TOP 7 (at end date)", "TOP 15 (at end date)"}
    ELSE {"Select All", "Select None", "Select Default"}

\* a click on one of the buttons the last run has shown
PressButton ==
    /\ out.ran
    /\ \E b \in Buttons(widgets.mode) : Script(widgets, b)

\* the single-day picker, when the last run has reached it
SetSingleDay ==
    /\ out.ran
    /\ out.table # "not_run"
    /\ \E d \in min_date(cache.df)..max_date(cache.df) :
        /\ d # widgets.single_day
        /\ Script([widgets EXCEPT !.single_day = d], "")

Next ==
    \/ FirstRun
    \/ SetMode
    \/ ToggleFinalTitan
    \/ ToggleMindbug
    \/ ToggleAgentAvenue
    \/ SetStartDate
    \/ SetEndDate
    \/ EditMultiselect
    \/ PressButton
    \/ SetSingleDay

Spec == Init /\ [][Next]_vars

\* the same session over the table with a day that has no row
InitGap ==
    /\ csv = GapCsv
    /\ cache = NotLoaded
    /\ session = NoSession
    /\ widgets = NoWidgets
    /\ out = NoOutput

SpecGap == InitGap /\ [][Next]_vars

-----------------------------------------------------------------------------
(* The data preparation alone: any bounded table, loaded once.              *)

\* csv: at most MaxRows rows, one row per (game_id, date), in any order, with
\* any views; or the scenario's table
InitPrep ==
    /\ \/ \E n \in 0..MaxRows :
            \E k \in [1..n -> PrepKeys] :
                /\ \A i, j \in 1..n : i # j => k[i] # k[j]
                /\ \E v \in [1..n -> 0..MaxViews] : csv = PrepTable(n, k, v)
       \/ csv = ScenarioCsv
    /\ cache = NotLoaded
    /\ session = NoSession
    /\ widgets = NoWidgets
    /\ out = NoOutput

\* the first call of the memoized load_and_prepare_data
LoadData ==
    /\ ~cache.loaded
    /\ cache' = [loaded |-> TRUE, df |-> load_and_prepare_data(csv)]
    /\ UNCHANGED <<csv, session, widgets, out>>

NextPrep == LoadData

SpecPrep == InitPrep /\ [][NextPrep]_vars


-----------------------------------------------------------------------------
(* The claims about the data preparation, checked under SpecPrep.           *)

\* the rows of the csv file of the game of r dated before r
EarlierInput(r) ==
    {j \in 1..Len(csv) : csv[j].game_id = r.game_id /\ csv[j].date < r.date}

\* the first date of the csv file, when it has rows
IsFirstDate(m) ==
    /\ \E j \in 1..Len(csv) : csv[j].date = m
    /\ \A j \in 1..Len(csv) : csv[j].date >= m

\* C1: with one row per (game_id, date) in the file, every row of the prepared
\* table carries views_diff 0 when it is its game's earliest row of the file,
\* and otherwise its views minus the views of the same game's row of the
\* latest earlier date; the scenario's table gives 20 and 30 on day 2 and
\* 15 and 15 on day 3.
C1_ViewsDiffPerGame ==
    cache.loaded =>
        /\ \A i \in 1..Len(cache.df) :
            LET r == cache.df[i]
                earlier == EarlierInput(r)
            IN  IF earlier = {} THEN r.views_diff = 0
                ELSE \E p \in earlier :
                        /\ \A k \in earlier : csv[k].date <= csv[p].date
                        /\ r.views_diff = r.views - csv[p].views
        /\ csv = ScenarioCsv =>
            {<<cache.df[i].game_id, cache.df[i].date, cache.df[i].views_diff>> :
                i \in 1..Len(cache.df)}
            = {<<1, 2, 20>>, <<2, 2, 30>>, <<1, 3, 15>>, <<2, 3, 15>>}

\* a file that is not in (game_id, date) order has been prepared: a row with a
\* difference other than 0 survives beside the row of another game that is that
\* game's earliest and has views of its own
C1_Witness ==
    /\ cache.loaded
    /\ csv # ScenarioCsv
    /\ \E a, b \in 1..Len(csv) :
        a < b /\ game_date_before(csv[b], csv[a])
    /\ \E i, j \in 1..Len(cache.df) :
        /\ cache.df[i].views_diff # 0
        /\ cache.df[j].game_id # cache.df[i].game_id
        /\ EarlierInput(cache.df[j]) = {}
        /\ cache.df[j].views > 0

\* what a row of the file and a row of the prepared table have in common
InputColumns(r) ==
    <<r.game_id, r.date, r.year, r.rank, r.views>>

\* C2: the prepared table holds exactly the rows of the file dated on or after
\* the day after the file's first date, each once: no row of the first date
\* survives and every later row does, whatever its game's own first date.
C2_GlobalCutoff ==
    cache.loaded =>
        /\ \A m \in {csv[j].date : j \in 1..Len(csv)} :
            IsFirstDate(m) =>
                {InputColumns(cache.df[i]) : i \in 1..Len(cache.df)}
                = {InputColumns(csv[j]) :
                      j \in {q \in 1..Len(csv) : csv[q].date >= m + 1}}
        /\ \A i, j \in 1..Len(cache.df) :
            InputColumns(cache.df[i]) = InputColumns(cache.df[j]) => i = j
        /\ csv = <<>> => cache.df = <<>>

\* a file has been prepared in which a row of the first date is dropped, a row
\* of the next day is kept, and a game whose own first row is later than the
\* file's first date keeps that row
C2_Witness ==
    /\ cache.loaded
    /\ \E m \in {csv[j].date : j \in 1..Len(csv)} :
        /\ IsFirstDate(m)
        /\ \E i \in 1..Len(cache.df) : cache.df[i].date = m + 1
        /\ \E i \in 1..Len(cache.df) :
            /\ EarlierInput(cache.df[i]) = {}
            /\ cache.df[i].date > m
        /\ Len(cache.df) < Len(csv)


-----------------------------------------------------------------------------
(* The claims about the two sections, checked under Spec (and SpecGap).     *)

\* the names the enabled highlight checkboxes stand for
EnabledHighlights ==
    (IF widgets.highlight_final_titan THEN {"Final Titan"} ELSE {})
    \cup (IF widgets.highlight_mindbug THEN {"Mindbug"} ELSE {})
    \cup (IF widgets.highlight_agent_avenue THEN {"Agent Avenue"} ELSE {})

\* the rows of the prepared table in the selected date range
InRange(r) == r.date >= widgets.start_date /\ r.date <= widgets.end_date

RowsInRange == {r \in Range(cache.df) : InRange(r)}

\* a chart row without the column the chart adds
WithoutHighlight(r) ==
    [game_id |-> r.game_id, date |-> r.date, name |-> r.name, year |-> r.year,
     rank |-> r.rank, views |-> r.views, views_diff |-> r.views_diff]

RECURSIVE SumRow(_, _)
SumRow(f, S) ==
    IF S = {} THEN 0
    ELSE LET n == CHOOSE x \in S : TRUE IN f[n] + SumRow(f, S \ {n})

RECURSIVE SumViewsDiff(_)
SumViewsDiff(S) ==
    IF S = {} THEN 0
    ELSE LET r == CHOOSE x \in S : TRUE IN r.views_diff + SumViewsDiff(S \ {r})

\* C3 (as claimed): every run of the time-series section issues exactly one of
\* the warning and the chart; By Game the warning is issued iff the multiselect
\* is empty and no highlight is enabled, By Rank iff no rank is selected.
C3_WarningOrChart ==
    out.ran =>
        /\ out.graph \in {"warning", "line_chart", "altair_chart"}
        /\ widgets.mode = "By Game" =>
            (out.graph = "warning"
                <=> MultiselectValue = <<>> /\ EnabledHighlights = {})
        /\ widgets.mode = "By Rank" =>
            (out.graph = "warning" <=> MultiselectValue = <<>>)

\* C4: By Rank with ranks selected, the rows of the chart and of its overlay
\* are together exactly the rows in the date range whose rank is selected or
\* whose name is an enabled highlight.
C4_RankRows ==
    out.graph = "altair_chart" =>
        {WithoutHighlight(r) :
            r \in Range(out.chart) \cup Range(out.highlight_chart)}
        = {r \in RowsInRange :
              \/ r.rank \in Range(out.selected_ranks)
              \/ r.name \in EnabledHighlights}

\* a chart By Rank in which a highlighted game has a row of a rank that is not
\* selected, beside a row of a selected rank, while a row of another game in
\* the range is left out
C4_Witness ==
    /\ out.graph = "altair_chart"
    /\ \E r \in Range(out.highlight_chart) :
        r.rank \notin Range(out.selected_ranks)
    /\ \E r \in Range(out.chart) : r.name \notin EnabledHighlights
    /\ \E r \in RowsInRange :
        r \notin {WithoutHighlight(q) :
                    q \in Range(out.chart) \cup Range(out.highlight_chart)}

\* what a bulk action of By Game sets selected_games to
GameButtonValue(b, df, end_date) ==
    CASE b = "Select All" -> all_games_list(df)
      [] b = "None" -> <<>>
      [] b = "TOP 7 (at end date)" -> Take(most_recent_games(df, end_date), 7)
      [] b = "TOP 15 (at end date)" -> Take(most_recent_games(df, end_date), 15)

\* what a bulk action of By Rank sets selected_ranks to
RankButtonValue(b, df) ==
    CASE b = "Select All" -> all_ranks(df)
      [] b = "Select None" -> <<>>
      [] b = "Select Default" -> <<1, 2, 3, 4, 5, 6, 7, 8, 9, 10>>

C5_Games ==
    IF ~session.has_games
    THEN /\ session'.has_games <=> widgets'.mode = "By Game"
         /\ session'.has_games =>
             /\ out'.button = ""
             /\ session'.selected_games
                = Take(most_recent_games(cache'.df, widgets'.end_date), 7)
    ELSE /\ session'.has_games
         /\ session'.selected_games
            = IF widgets'.mode = "By Game" /\ out'.button # ""
              THEN GameButtonValue(out'.button, cache'.df, widgets'.end_date)
              ELSE session.selected_games

C5_Ranks ==
    IF ~session.has_ranks
    THEN /\ session'.has_ranks <=> widgets'.mode = "By Rank"
         /\ session'.has_ranks =>
             /\ out'.button = ""
             /\ session'.selected_ranks = <<1, 2, 3, 4, 5, 6, 7, 8, 9, 10>>
    ELSE /\ session'.has_ranks
         /\ session'.selected_ranks
            = IF widgets'.mode = "By Rank" /\ out'.button # ""
              THEN RankButtonValue(out'.button, cache'.df)
              ELSE session.selected_ranks

\* C5: selected_games is set on the first run By Game to the first 7 of the
\* most-recent list and selected_ranks on the first run By Rank to 1..10; from
\* then on each changes only in a run in which a button of its mode is pressed,
\* to that button's value, and is left as it is by every other run.
C5_SelectionsPersist == [][C5_Games /\ C5_Ranks]_vars

\* a run without a button, By Rank, after both selections have been set by a
\* bulk action: selected_games is still empty and selected_ranks still all ranks
C5_Witness ==
    /\ out.ran
    /\ out.button = ""
    /\ widgets.mode = "By Rank"
    /\ session.has_games
    /\ session.selected_games = <<>>
    /\ session.has_ranks
    /\ session.selected_ranks = all_ranks(cache.df)
    /\ session.selected_ranks # <<1, 2, 3, 4, 5, 6, 7, 8, 9, 10>>

\* C6: By Game with a selection, for every date of the pivoted table the sum
\* over its columns is the sum of views_diff over the rows in the date range of
\* that date whose name is selected (a name selected twice counts once); the
\* dates are those with such a row, and a name without a row on a date has 0.
C6_PivotSums ==
    out.graph = "line_chart" =>
        /\ DOMAIN out.pivoted
           = {r.date : r \in {q \in RowsInRange :
                                 q.name \in Range(out.selected_games)}}
        /\ \A d \in DOMAIN out.pivoted :
            /\ SumRow(out.pivoted[d], DOMAIN out.pivoted[d])
               = SumViewsDiff({r \in RowsInRange :
                                  /\ r.date = d
                                  /\ r.name \in Range(out.selected_games)})
            /\ \A n \in DOMAIN out.pivoted[d] :
                (\A r \in RowsInRange : ~(r.date = d /\ r.name = n))
                    => out.pivoted[d][n] = 0

\* a pivoted table with a name that is selected twice, a date on which two rows
\* bear one selected name and their sum is not 0, and a name without a row on
\* a date of the table
C6_Witness ==
    /\ out.graph = "line_chart"
    /\ \E i, j \in 1..Len(out.selected_games) :
        i # j /\ out.selected_games[i] = out.selected_games[j]
    /\ \E d \in DOMAIN out.pivoted :
        /\ \E r, q \in RowsInRange :
            /\ r # q /\ r.date = d /\ q.date = d /\ r.name = q.name
            /\ r.name \in DOMAIN out.pivoted[d]
            /\ out.pivoted[d][r.name] # 0
            /\ r.views_diff # out.pivoted[d][r.name]
        /\ \E n \in DOMAIN out.pivoted[d] :
            \A r \in RowsInRange : ~(r.date = d /\ r.name = n)

\* what the section's table shows of a row
TableColumns(r) ==
    [rank |-> r.rank, game_id |-> r.game_id, name |-> r.name, year |-> r.year,
     views |-> r.views, views_diff |-> r.views_diff]

C7_Table ==
    out.table # "not_run" =>
        /\ widgets.single_day >= min_date(cache.df)
        /\ widgets.single_day <= max_date(cache.df)
        /\ IF \A r \in Range(cache.df) : r.date # widgets.single_day
           THEN out.table = "warning" /\ out.table_rows = <<>>
           ELSE /\ out.table = "dataframe"
                /\ Range(out.table_rows)
                   = {TableColumns(r) :
                        r \in {q \in Range(cache.df) :
                                  q.date = widgets.single_day}}
                /\ Len(out.table_rows)
                   = Cardinality({q \in Range(cache.df) :
                                     q.date = widgets.single_day})
                /\ \A i, j \in 1..Len(out.table_rows) :
                    i < j => out.table_rows[i].rank <= out.table_rows[j].rank

C8_NoEmptyPivot ==
    (out.ran /\ widgets.mode = "By Game") =>
        /\ out.graph = "line_chart" =>
            \E r \in RowsInRange : r.name \in Range(out.selected_games)
        /\ widgets.start_date > widgets.end_date =>
            /\ out.date_error
            /\ out.graph = "warning"

\* C8 (amended): By Game, whenever the pivot and the line chart are issued the
\* effective selection is not empty, while the rows it selects may be none;
\* with the start date after the end date the date error is shown, the run is
\* not ended, and the chart is issued over an empty pivoted table unless the
\* effective selection is empty, which alone gives the warning.
C8_GuardIsOnSelection ==
    (out.ran /\ widgets.mode = "By Game") =>
        /\ out.graph = "line_chart" => out.selected_games # <<>>
        /\ out.graph = "warning"
            <=> MultiselectValue = <<>> /\ EnabledHighlights = {}
        /\ widgets.start_date > widgets.end_date =>
            /\ out.date_error
            /\ out.graph \in {"warning", "line_chart"}
            /\ out.graph = "line_chart" => out.pivoted = <<>>

\* the start date is after the end date and a highlight is enabled: the date
\* error is shown and the line chart is issued over an empty pivoted table
C8_Witness ==
    /\ out.ran
    /\ widgets.mode = "By Game"
    /\ widgets.start_date > widgets.end_date
    /\ out.date_error
    /\ out.graph = "line_chart"
    /\ out.pivoted = <<>>
    /\ out.selected_games # <<>>

\* the ranks on the latest-dated rows of a name among the rows S
LatestRanks(S, n) ==
    {r.rank : r \in {q \in S : /\ q.name = n
                               /\ \A p \in S : p.name = n => p.date <= q.date}}

\* the rank on the first row of a name among the rows S, in the prepared
\* table's order (game_id, then date)
FirstRank(S, n) ==
    (CHOOSE r \in S :
        /\ r.name = n
        /\ \A p \in S : p.name = n => (p = r \/ game_date_before(r, p))).rank

\* list holds every name of the rows S once
EachNameOnce(list, S) ==
    /\ Range(list) = {r.name : r \in S}
    /\ Len(list) = Cardinality({r.name : r \in S})

RowsOn(day) == {r \in Range(cache.df) : r.date = day}

C10_DefaultsAreOptions ==
    /\ session.has_games =>
        Range(session.selected_games) \subseteq {r.name : r \in Range(cache.df)}
    /\ session.has_ranks =>
        Range(session.selected_ranks) \subseteq {r.rank : r \in Range(cache.df)}

=============================================================================
